---- MODULE Spec2Model ----
(***************************************************************************)
(* Ebooks extractor: the Streamlit script app.py and the scraping helpers  *)
(* of scraper_util.py that it imports as `su`.                             *)
(*                                                                         *)
(* app.py spells four helpers differently from scraper_util.py             *)
(* (get_topics_for_subject / get_topics, fetch_total_books_count /         *)
(* total_books_present, fetch_books_data / get_books_data,                 *)
(* parse_books_details / parse_books_data); each call is modelled as a     *)
(* call of the scraper_util function of the same signature.                *)
(***************************************************************************)
EXTENDS Integers, Sequences, FiniteSets, TLC

(***************************************************************************)
(* Bounds of the model.                                                    *)
(***************************************************************************)
\* longest authors list of a raw record given to the normalizer
MaxAuthors == 2
\* number of scalar source fields that may differ from the record's baseline
MaxOdd == 1
\* pages of the search endpoint that hold books; later pages are empty
MaxPages == 2
\* most books on one page
MaxPageSize == 2
\* largest total_results the search endpoint reports
MaxTotal == 3

(***************************************************************************)
(* Python values.  Every value carries its type in the field t, so that    *)
(* None, strings, integers and lists can be told apart.                    *)
(***************************************************************************)
None == [t |-> "None"]

Str(s) == [t |-> "str", v |-> s]

PyInt(n) == [t |-> "int", v |-> n]

List(l) == [t |-> "list", v |-> l]

\* a key that the dict does not hold (only used to build raw records)
Absent == [t |-> "absent"]

\* dict.get(key): the value, or None when the key is missing
Get(d, k) == IF k \in DOMAIN d THEN d[k] ELSE None

\* truth value of an object in a Python condition
Truthy(x) ==
    CASE x.t = "None" -> FALSE
      [] x.t = "str"  -> Len(x.v) > 0
      [] x.t = "list" -> Len(x.v) > 0
      [] x.t = "int"  -> x.v # 0

\* an exception leaving a function
Raise(e) == [exc |-> e]

Raised(r) == "exc" \in DOMAIN r

(***************************************************************************)
(* scraper_util.parse_books_data                                           *)
(***************************************************************************)
website_url == "https://www.ebooks.com/"

StartsWith(s, p) == Len(s) >= Len(p) /\ SubSeq(s, 1, Len(p)) = p

\* urllib.parse.urljoin(base, url) for base = scheme://host/ and a url that is
\* None, empty, absolute (http/https), root-relative or relative.
urljoin(base, url) ==
    IF ~Truthy(url) THEN Str(base)
    ELSE IF StartsWith(url.v, "https://") \/ StartsWith(url.v, "http://") THEN url
    ELSE IF StartsWith(url.v, "/") THEN Str(SubSeq(base, 1, Len(base) - 1) \o url.v)
    ELSE Str(base \o url.v)

\* the items joined last to first
RECURSIVE JoinReversed(_, _)
JoinReversed(sep, strs) ==
    IF Len(strs) = 0 THEN ""
    ELSE IF Len(strs) = 1 THEN strs[1]
    ELSE JoinReversed(sep, Tail(strs)) \o sep \o strs[1]

\* sep.join(strs)
RECURSIVE Join(_, _)
Join(sep, strs) ==
    IF Len(strs) = 0 THEN ""
    ELSE IF Len(strs) = 1 THEN strs[1]
    ELSE strs[1] \o sep \o Join(sep, Tail(strs))

\* [author.get("name") for author in authors_data]
AuthorNames(authors_data) ==
    [i \in 1..Len(authors_data.v) |-> Get(authors_data.v[i], "name")]

\* ", ".join([...]) if authors_data else "": str.join raises TypeError on an
\* item that is not a str
AuthorsString(authors_data) ==
    IF Truthy(authors_data)
    THEN LET names == AuthorNames(authors_data)
         IN IF \E i \in 1..Len(names) : names[i].t # "str"
            THEN Raise("TypeError")
            ELSE Str(Join(", ", [i \in 1..Len(names) |-> names[i].v]))
    ELSE Str("")

\* prime_authors=authors if authors else "Unknown"
PrimeAuthors(authors) == IF Truthy(authors) THEN authors ELSE Str("Unknown")

\* the Book dataclass, as asdict() returns it
Book(book, authors, book_url) ==
    [ book_id                |-> Get(book, "id"),
      book_title             |-> Get(book, "title"),
      book_subtitle          |-> Get(book, "subtitle"),
      book_description       |-> Get(book, "description"),
      publisher              |-> Get(book, "publisher"),
      edition                |-> Get(book, "edition"),
      publication_date       |-> Get(book, "on_sale_date"),
      publication_month_year |-> Get(book, "short_publication_date"),
      publication_year       |-> Get(book, "publication_year"),
      price                  |-> Get(book, "price"),
      prime_authors          |-> PrimeAuthors(authors),
      num_authors            |-> Get(book, "num_authors"),
      book_url               |-> book_url,
      book_image_url         |-> Get(book, "image_url") ]

parse_books_data(book) ==
    LET authors == AuthorsString(Get(book, "authors"))
        book_url == urljoin(website_url, Get(book, "book_url"))
    IN IF Raised(authors) THEN authors ELSE Book(book, authors, book_url)

(***************************************************************************)
(* Raw records given to the normalizer.                                    *)
(***************************************************************************)
ScalarFields ==
    { "id", "title", "subtitle", "description", "publisher", "edition",
      "on_sale_date", "short_publication_date", "publication_year", "price",
      "num_authors", "image_url" }

SourceFields == ScalarFields \cup {"authors", "book_url"}

FieldStates == {"absent", "null", "present"}

\* the value the API sends for a scalar field that is present
PresentValue(f) ==
    IF f \in {"publication_year", "num_authors"} THEN PyInt(7) ELSE Str("<" \o f \o ">")

\* every scalar field absent, null or present: all fields in one state, but
\* for at most MaxOdd fields
ScalarShapes ==
    UNION { UNION { { [f \in ScalarFields |-> IF f \in D THEN d[f] ELSE base]
                      : d \in [D -> FieldStates] }
                    : D \in {S \in SUBSET ScalarFields : Cardinality(S) <= MaxOdd} }
            : base \in FieldStates }

ScalarValue(f, state) == IF state = "null" THEN None ELSE PresentValue(f)

\* one entry of an authors list: without name, name null, or a name
AuthorEntries ==
    { [k \in {} |-> None], [name |-> None],
      [name |-> Str("")], [name |-> Str("A")], [name |-> Str("B")] }

AuthorLists == UNION { [1..n -> AuthorEntries] : n \in 0..MaxAuthors }

AuthorsChoices == {Absent, None} \cup { List(l) : l \in AuthorLists }

UrlChoices ==
    { Absent, None, Str(""), Str("/b/42"), Str("b/42"),
      Str("https://cdn.example.org/b/42") }

RawRecord(shape, authors, url) ==
    LET keys == {f \in ScalarFields : shape[f] # "absent"}
                  \cup (IF authors = Absent THEN {} ELSE {"authors"})
                  \cup (IF url = Absent THEN {} ELSE {"book_url"})
    IN [f \in keys |-> CASE f = "authors" -> authors
                         [] f = "book_url" -> url
                         [] OTHER -> ScalarValue(f, shape[f])]

(***************************************************************************)
(* State of one run of the script app.py, and of the remote API as the     *)
(* run has seen it.                                                        *)
(***************************************************************************)
VARIABLES
    pc,                     \* position of the script
    requests,               \* the GET requests issued so far, in order
    responses,              \* responses[i] is the remote's answer to requests[i]
    subject_details,        \* app.py:70
    all_subjects_dict,      \* app.py:71
    category_select,        \* app.py:75
    subject_select,         \* app.py:81-89
    topics_details,         \* app.py:92
    topic_select,           \* app.py:96
    topic_id,               \* app.py:105-108
    PAGE_NUM,               \* app.py:111
    all_books_details,      \* app.py:112
    total_books_available,  \* app.py:115
    my_bar,                 \* the calls of st.progress / my_bar.progress, in order
    output,                 \* what the run shows last: st.write or st.download_button
    exc,                    \* the uncaught exception that ended the run, if any
    book,                   \* the raw record given to parse_books_data
    details                 \* the row parse_books_data returned

vars ==
    << pc, requests, responses, subject_details, all_subjects_dict, category_select,
       subject_select, topics_details, topic_select, topic_id, PAGE_NUM,
       all_books_details, total_books_available, my_bar, output, exc, book, details >>

\* a name that is not bound yet
Unset == [t |-> "unset"]

NoExc == "none"

NoOutput == [kind |-> "none"]

(***************************************************************************)
(* The remote API.  A request either fails (network error, timeout, a body *)
(* that is not JSON) or returns a JSON object.                             *)
(***************************************************************************)
Unavailable == [t |-> "unavailable"]

Json(d) == [t |-> "json", v |-> d]

EmptyDict == [k \in {} |-> None]

\* str(x), as requests puts a parameter in the query string
PyStrOf(x) ==
    CASE x.t = "None" -> "None"
      [] x.t = "int"  -> ToString(x.v)
      [] x.t = "str"  -> x.v

MenuRequest(subjectID) ==
    [ url |-> "https://www.ebooks.com/api/subject/menu/",
      CountryCode |-> "US", subjectID |-> subjectID, pageNumber |-> "" ]

SearchRequest(pageNumber, subjectID) ==
    [ url |-> "https://www.ebooks.com/api/search/subject/",
      CountryCode |-> "US", subjectID |-> subjectID, pageNumber |-> pageNumber ]

Menu(entries) == [subject_menu_entries |-> entries]

Entry(name, id) == [subject_name |-> name, id |-> PyInt(id)]

\* answers of /api/subject/menu/ for the root subject: two healthy ones that
\* differ, and one with fewer than four menus
RootMenuResponses ==
    { Unavailable,
      Json([subject_menus |-> List(<< Menu(<<>>), Menu(<<Entry("Romance", 11)>>),
                                      Menu(<<Entry("Fantasy", 12)>>),
                                      Menu(<<Entry("History", 13)>>) >>)]),
      Json([subject_menus |-> List(<< Menu(<<>>), Menu(<<Entry("Thrillers", 21)>>),
                                      Menu(<<Entry("Fantasy", 22)>>),
                                      Menu(<<Entry("Science", 23)>>) >>)]),
      Json([subject_menus |-> List(<< Menu(<<>>), Menu(<<Entry("Romance", 11)>>) >>)]) }

\* answers of /api/subject/menu/ for a subject: no topics, two topics, no menu
\* at all, no subject_menus key
TopicMenuResponses ==
    { Unavailable,
      Json([subject_menus |-> List(<< Menu(<<>>) >>)]),
      Json([subject_menus |-> List(<< Menu(<<Entry("Gothic", 31), Entry("Epic", 32)>>),
                                      Menu(<<Entry("Romance", 11)>>) >>)]),
      Json([subject_menus |-> List(<<>>)]),
      Json(EmptyDict) }

\* answers of /api/search/subject/ as total_books_present reads them
TotalResponses ==
    { Unavailable, Json(EmptyDict) }
      \cup { Json([total_results |-> PyInt(n)]) : n \in 0..MaxTotal }

\* the raw record at position idx of page page_num; one whose author entry has
\* no name when ~named
RemoteBook(page_num, idx, named) ==
    [ id       |-> Str(ToString(page_num) \o "-" \o ToString(idx)),
      title    |-> Str("<title>"),
      authors  |-> List(<< IF named THEN [name |-> Str("A")] ELSE EmptyDict >>),
      book_url |-> Str("/b/" \o ToString(page_num) \o "-" \o ToString(idx)) ]

RemotePage(page_num, n, named) ==
    [i \in 1..n |-> RemoteBook(page_num, i, named \/ i < n)]

\* answers of /api/search/subject/ as get_books_data reads them: pages after
\* MaxPages hold no books
PageResponses(page_num) ==
    { Unavailable, Json(EmptyDict), Json([books |-> None]), Json([books |-> List(<<>>)]) }
      \cup (IF page_num <= MaxPages
            THEN { Json([books |-> List(RemotePage(page_num, n, named))])
                   : n \in 1..MaxPageSize, named \in BOOLEAN }
            ELSE {})

(***************************************************************************)
(* scraper_util: the taxonomy and search functions.  Each takes the        *)
(* remote's answer(s) to the request(s) it issues and gives its return     *)
(* value, or the exception it lets through.                                *)
(***************************************************************************)
\* {entry["subject_name"]: entry["id"] for entry in entries}: a later entry of
\* the same name replaces an earlier one
EntriesDict(entries) ==
    LET names == {entries[i].subject_name : i \in 1..Len(entries)}
        last(n) == CHOOSE i \in 1..Len(entries) :
                      /\ entries[i].subject_name = n
                      /\ \A j \in 1..Len(entries) :
                            entries[j].subject_name = n => j <= i
    IN [n \in names |-> entries[last(n)].id]

\* get_category_subjects.fetch_category_subjects(item_idx), given the answer
\* to its request
fetch_category_subjects(response, item_idx) ==
    IF response = Unavailable THEN Raise("RequestException")
    ELSE IF "subject_menus" \notin DOMAIN response.v THEN Raise("KeyError")
    ELSE IF item_idx + 1 > Len(response.v.subject_menus.v) THEN Raise("IndexError")
    ELSE EntriesDict(response.v.subject_menus.v[item_idx + 1].subject_menu_entries)

\* get_category_subjects(): one call of fetch_category_subjects, and so one
\* request, for each of the indices 1, 2 and 3.  answers[i] is the answer to
\* the i-th request; sent is the number of requests issued, exc the exception
\* let through, value the list returned.
get_category_subjects(answers) ==
    LET popular_cat_dict == fetch_category_subjects(answers[1], 1)
        fiction_cat_dict == fetch_category_subjects(answers[2], 2)
        non_fiction_cat_dict == fetch_category_subjects(answers[3], 3)
    IN IF Raised(popular_cat_dict)
       THEN [sent |-> 1, exc |-> popular_cat_dict.exc, value |-> <<>>]
       ELSE IF Raised(fiction_cat_dict)
       THEN [sent |-> 2, exc |-> fiction_cat_dict.exc, value |-> <<>>]
       ELSE IF Raised(non_fiction_cat_dict)
       THEN [sent |-> 3, exc |-> non_fiction_cat_dict.exc, value |-> <<>>]
       ELSE [ sent |-> 3, exc |-> NoExc,
              value |-> <<popular_cat_dict, fiction_cat_dict, non_fiction_cat_dict>> ]

\* get_topics(subject_id).fetch_topics, given the answer to its request
get_topics(response) ==
    IF response = Unavailable THEN Raise("RequestException")
    ELSE LET subject_menu == Get(response.v, "subject_menus")
         IN IF subject_menu.t = "None" THEN Raise("TypeError")
            ELSE IF Len(subject_menu.v) = 0 THEN Raise("IndexError")
            ELSE EntriesDict(subject_menu.v[1].subject_menu_entries)

\* total_books_present(subject_id), given the answer to its request:
\* int(response.json().get("total_results"))
total_books_present(response) ==
    IF response = Unavailable THEN Raise("RequestException")
    ELSE LET total_books == Get(response.v, "total_results")
         IN IF total_books.t = "None" THEN Raise("TypeError") ELSE total_books

\* a failed page request taken for a page without books
get_books_data_swallow(response) ==
    IF response = Unavailable THEN None ELSE Get(response.v, "books")

\* get_books_data(page_num, subject_id), given the answer to its request:
\* response.json().get("books")
get_books_data(response) ==
    IF response = Unavailable THEN Raise("RequestException")
    ELSE Get(response.v, "books")

(***************************************************************************)
(* app.py                                                                  *)
(***************************************************************************)
Categories == <<"Popular Subjects", "Fiction", "Non-Fiction">>

\* {sub_name: sub_id for d in subject_details for sub_name, sub_id in d.items()}
RECURSIVE MergeDicts(_)
MergeDicts(dicts) ==
    IF Len(dicts) = 0 THEN EmptyDict
    ELSE LET front == MergeDicts(SubSeq(dicts, 1, Len(dicts) - 1))
             back == dicts[Len(dicts)]
         IN [k \in DOMAIN front \cup DOMAIN back |->
                IF k \in DOMAIN back THEN back[k] ELSE front[k]]

\* d.get(key) for a key that st.selectbox returned: a str, or None
DictGet(d, key) == IF key.t = "str" /\ key.v \in DOMAIN d THEN d[key.v] ELSE None

\* what st.selectbox may return: one of the options, None when there is none
SelectBox(options) == IF options = {} THEN {None} ELSE {Str(o) : o \in options}

\* the topic id looked up in the topic map even when the map is empty
TopicIdNoFallback(topics, topic_sel, subjects, subject_sel) ==
    DictGet(topics, topic_sel)

\* app.py:105-108
TopicId(topics, topic_sel, subjects, subject_sel) ==
    IF Cardinality(DOMAIN topics) = 0
    THEN DictGet(subjects, subject_sel)
    ELSE DictGet(topics, topic_sel)

\* the loop going on for every page that is not null, the empty ones too
HasBooksNotNone(books_data) == books_data.t # "None"

\* app.py:124
HasBooks(books_data) == books_data.t # "None" /\ Len(books_data.v) > 0

scrape_timestamp == Str("%Y-%m-%d %H:%M:%S")

\* app.py:125-129: the rows after the for loop over books_data, and the
\* exception parse_books_data raised on the way, if any
RECURSIVE AppendDetails(_, _)
AppendDetails(rows, books_data) ==
    IF Len(books_data) = 0 THEN [rows |-> rows, exc |-> NoExc]
    ELSE LET parsed == parse_books_data(Head(books_data))
         IN IF Raised(parsed) THEN [rows |-> rows, exc |-> parsed.exc]
            ELSE AppendDetails(
                    Append(rows, [k \in DOMAIN parsed \cup {"scrape_timestamp"} |->
                                     IF k = "scrape_timestamp" THEN scrape_timestamp
                                     ELSE parsed[k]]),
                    Tail(books_data))

\* app.py:135-136: int((len(all_books_details) / total_books_available) * 100);
\* the float quotient truncates to this integer for the counts of the model
ProgressPct(collected, total) == (collected * 100) \div total

PROGRESS_TEXT == "Operation in progress. Please wait..."

\* app.py:140-143
ProgressText(collected, total, progress_pct) ==
    "Books Collected: " \o ToString(collected) \o " out of " \o ToString(total)
        \o " | " \o ToString(progress_pct) \o "%"

Min(a, b) == IF a <= b THEN a ELSE b

\* the percentage given to the bar as it is
BarValueUncapped(progress_pct) == progress_pct

\* app.py:138-144: the value given to my_bar.progress
BarValue(progress_pct) == Min(progress_pct, 100)

\* the columns of pd.DataFrame(all_books_details)
Columns ==
    << "book_id", "book_title", "book_subtitle", "book_description", "publisher",
       "edition", "publication_date", "publication_month_year", "publication_year",
       "price", "prime_authors", "num_authors", "book_url", "book_image_url",
       "scrape_timestamp" >>

\* a cell of DataFrame.to_csv: None is written as the empty string
CsvCell(x) ==
    CASE x.t = "None" -> ""
      [] x.t = "int"  -> ToString(x.v)
      [] x.t = "str"  -> x.v

\* books_df.to_csv(index=False): the header and one line for each row
ToCsv(rows) ==
    <<Columns>> \o [i \in 1..Len(rows) |->
                      [c \in 1..Len(Columns) |-> CsvCell(rows[i][Columns[c]])]]

\* the download offered for an empty collection too
CsvOutputAlways(rows) ==
    [ kind |-> "download_button", label |-> "Download Data as CSV",
      data |-> ToCsv(rows), file_name |-> "books_data.csv" ]

\* app.py:149-160: what the run shows once the loop has ended
CsvOutput(rows) ==
    IF Len(rows) = 0
    THEN [kind |-> "write", body |-> "No books available to collect"]
    ELSE [ kind |-> "download_button", label |-> "Download Data as CSV",
           data |-> ToCsv(rows), file_name |-> "books_data.csv" ]

(***************************************************************************)
(* One run of the script, from its first line.                             *)
(***************************************************************************)
Init ==
    /\ pc = "categories"
    /\ requests = <<>>
    /\ responses = <<>>
    /\ subject_details = Unset
    /\ all_subjects_dict = Unset
    /\ category_select = Unset
    /\ subject_select = Unset
    /\ topics_details = Unset
    /\ topic_select = Unset
    /\ topic_id = Unset
    /\ PAGE_NUM = Unset
    /\ all_books_details = <<>>
    /\ total_books_available = Unset
    /\ my_bar = <<>>
    /\ output = NoOutput
    /\ exc = NoExc
    /\ book = Unset
    /\ details = Unset

\* an exception nothing catches ends the run: Streamlit shows it and runs no
\* further line of the script
Abort(e) ==
    /\ pc' = "aborted"
    /\ exc' = e

\* app.py:69-72
CategorySubjects ==
    /\ pc = "categories"
    /\ \E answers \in [1..3 -> RootMenuResponses] :
          LET got == get_category_subjects(answers)
          IN /\ requests' = requests \o [i \in 1..got.sent |-> MenuRequest("184")]
             /\ responses' = responses \o [i \in 1..got.sent |-> answers[i]]
             /\ IF got.exc # NoExc
                THEN /\ Abort(got.exc)
                     /\ UNCHANGED <<subject_details, all_subjects_dict>>
                ELSE /\ subject_details' = got.value
                     /\ all_subjects_dict' = MergeDicts(got.value)
                     /\ pc' = "subjects"
                     /\ UNCHANGED exc
    /\ UNCHANGED << category_select, subject_select, topics_details, topic_select,
                    topic_id, PAGE_NUM, all_books_details, total_books_available,
                    my_bar, output, book, details >>

\* app.py:74-89: the two select boxes hold what the user chose
SelectSubject ==
    /\ pc = "subjects"
    /\ \E c \in 1..Len(Categories) :
          /\ category_select' = Categories[c]
          /\ subject_select' \in SelectBox(DOMAIN subject_details[c])
    /\ pc' = "topics"
    /\ UNCHANGED << requests, responses, subject_details, all_subjects_dict,
                    topics_details, topic_select, topic_id, PAGE_NUM,
                    all_books_details, total_books_available, my_bar, output, exc,
                    book, details >>

\* app.py:91-93
TopicsForSubject ==
    /\ pc = "topics"
    /\ \E answer \in TopicMenuResponses :
          LET subject_id == DictGet(all_subjects_dict, subject_select)
              got == get_topics(answer)
          IN /\ requests' = Append(requests, MenuRequest(PyStrOf(subject_id)))
             /\ responses' = Append(responses, answer)
             /\ IF Raised(got)
                THEN /\ Abort(got.exc)
                     /\ UNCHANGED topics_details
                ELSE /\ topics_details' = got
                     /\ pc' = "topic"
                     /\ UNCHANGED exc
    /\ UNCHANGED << subject_details, all_subjects_dict, category_select,
                    subject_select, topic_select, topic_id, PAGE_NUM,
                    all_books_details, total_books_available, my_bar, output, book,
                    details >>

\* app.py:95-103: the topic select box and the Get Data button; the script
\* ends here unless the button was pressed
SelectTopic ==
    /\ pc = "topic"
    /\ topic_select' \in SelectBox(DOMAIN topics_details)
    /\ \E submit \in BOOLEAN : pc' = IF submit THEN "submit" ELSE "idle"
    /\ UNCHANGED << requests, responses, subject_details, all_subjects_dict,
                    category_select, subject_select, topics_details, topic_id,
                    PAGE_NUM, all_books_details, total_books_available, my_bar,
                    output, exc, book, details >>

\* app.py:104-112
Submit ==
    /\ pc = "submit"
    /\ topic_id' = TopicId(topics_details, topic_select, all_subjects_dict,
                           subject_select)
    /\ PAGE_NUM' = 1
    /\ all_books_details' = <<>>
    /\ pc' = "total"
    /\ UNCHANGED << requests, responses, subject_details, all_subjects_dict,
                    category_select, subject_select, topics_details, topic_select,
                    total_books_available, my_bar, output, exc, book, details >>

\* app.py:114-119
TotalBooksCount ==
    /\ pc = "total"
    /\ \E answer \in TotalResponses :
          LET got == total_books_present(answer)
          IN /\ requests' = Append(requests, SearchRequest("1", PyStrOf(topic_id)))
             /\ responses' = Append(responses, answer)
             /\ IF Raised(got)
                THEN /\ Abort(got.exc)
                     /\ UNCHANGED <<total_books_available, my_bar>>
                ELSE /\ total_books_available' = got
                     /\ my_bar' = <<[value |-> 0, text |-> PROGRESS_TEXT]>>
                     /\ pc' = "collect"
                     /\ UNCHANGED exc
    /\ UNCHANGED << subject_details, all_subjects_dict, category_select,
                    subject_select, topics_details, topic_select, topic_id,
                    PAGE_NUM, all_books_details, output, book, details >>

\* app.py:121-146: one iteration of the while loop
BooksPage ==
    /\ pc = "collect"
    /\ \E answer \in PageResponses(PAGE_NUM) :
          LET books_data == get_books_data(answer)
          IN /\ requests' = Append(requests, SearchRequest(ToString(PAGE_NUM),
                                                           PyStrOf(topic_id)))
             /\ responses' = Append(responses, answer)
             /\ IF Raised(books_data)
                THEN /\ Abort(books_data.exc)
                     /\ UNCHANGED <<PAGE_NUM, all_books_details, my_bar, book, details>>
                ELSE IF ~HasBooks(books_data)
                THEN /\ pc' = "export"
                     /\ UNCHANGED <<PAGE_NUM, all_books_details, my_bar, exc, book,
                                    details>>
                ELSE LET after == AppendDetails(all_books_details, books_data.v)
                         appended == Len(after.rows) - Len(all_books_details)
                         progress_pct == ProgressPct(Len(after.rows),
                                                     total_books_available.v)
                     IN /\ all_books_details' = after.rows
                        /\ book' = IF Len(books_data.v) = 0 THEN book
                                   ELSE books_data.v[Min(appended + 1,
                                                         Len(books_data.v))]
                        /\ details' = IF appended > 0 THEN after.rows[Len(after.rows)]
                                      ELSE details
                        /\ IF after.exc # NoExc
                           THEN /\ Abort(after.exc)
                                /\ UNCHANGED <<PAGE_NUM, my_bar>>
                           ELSE /\ PAGE_NUM' = PAGE_NUM + 1
                                /\ IF total_books_available.v = 0
                                   THEN /\ Abort("ZeroDivisionError")
                                        /\ UNCHANGED my_bar
                                   ELSE /\ my_bar' = Append(my_bar,
                                              [ value |-> BarValue(progress_pct),
                                                text |-> ProgressText(
                                                    Len(after.rows),
                                                    total_books_available.v,
                                                    progress_pct) ])
                                        /\ pc' = "collect"
                                        /\ UNCHANGED exc
    /\ UNCHANGED << subject_details, all_subjects_dict, category_select,
                    subject_select, topics_details, topic_select, topic_id,
                    total_books_available, output >>

\* app.py:148-160
GenerateCsv ==
    /\ pc = "export"
    /\ output' = CsvOutput(all_books_details)
    /\ pc' = "done"
    /\ UNCHANGED << requests, responses, subject_details, all_subjects_dict,
                    category_select, subject_select, topics_details, topic_select,
                    topic_id, PAGE_NUM, all_books_details, total_books_available,
                    my_bar, exc, book, details >>

Next ==
    \/ CategorySubjects
    \/ SelectSubject
    \/ TopicsForSubject
    \/ SelectTopic
    \/ Submit
    \/ TotalBooksCount
    \/ BooksPage
    \/ GenerateCsv

Spec == Init /\ [][Next]_vars

\* the script runs on by itself: a line that can run does run
LiveSpec == Spec /\ WF_vars(Next)

(***************************************************************************)
(* The normalizer alone: parse_books_data applied to a raw record built    *)
(* from any of the source fields, each absent, null or present.            *)
(***************************************************************************)
NormInit ==
    /\ pc = "parse"
    /\ requests = <<>>
    /\ responses = <<>>
    /\ subject_details = Unset
    /\ all_subjects_dict = Unset
    /\ category_select = Unset
    /\ subject_select = Unset
    /\ topics_details = Unset
    /\ topic_select = Unset
    /\ topic_id = Unset
    /\ PAGE_NUM = Unset
    /\ all_books_details = <<>>
    /\ total_books_available = Unset
    /\ my_bar = <<>>
    /\ output = NoOutput
    /\ exc = NoExc
    /\ \E shape \in ScalarShapes, a \in AuthorsChoices, u \in UrlChoices :
          book = RawRecord(shape, a, u)
    /\ details = Unset

Normalize ==
    /\ pc = "parse"
    /\ LET parsed == parse_books_data(book)
       IN IF Raised(parsed)
          THEN /\ Abort(parsed.exc)
               /\ UNCHANGED details
          ELSE /\ details' = parsed
               /\ pc' = "parsed"
               /\ UNCHANGED exc
    /\ UNCHANGED << requests, responses, subject_details, all_subjects_dict,
                    category_select, subject_select, topics_details, topic_select,
                    topic_id, PAGE_NUM, all_books_details, total_books_available,
                    my_bar, output, book >>

NormNext == Normalize

NormSpec == NormInit /\ [][NormNext]_vars

(***************************************************************************)
(* What a run has asked of the search endpoint: the first search request   *)
(* is the total-count query, every later one fetches a page.               *)
(***************************************************************************)
SearchUrl == "https://www.ebooks.com/api/search/subject/"

MenuUrl == "https://www.ebooks.com/api/subject/menu/"

SearchIdx == {i \in 1..Len(requests) : requests[i].url = SearchUrl}

TotalIdx == CHOOSE i \in SearchIdx : \A j \in SearchIdx : i <= j

\* the answers to the page fetches, in order
PageAnswers ==
    IF SearchIdx = {} THEN <<>> ELSE SubSeq(responses, TotalIdx + 1, Len(responses))

\* a page without records: books missing, null or an empty list
IsEmptyPage(r) ==
    /\ r.t = "json"
    /\ \/ "books" \notin DOMAIN r.v
       \/ r.v.books.t = "None"
       \/ Len(r.v.books.v) = 0

\* the raw records of an answer
RecordsOf(r) ==
    IF r.t = "json" /\ ~IsEmptyPage(r) THEN r.v.books.v ELSE <<>>

\* a page of records that all have named authors
IsSoundPage(r) ==
    /\ r.t = "json"
    /\ ~IsEmptyPage(r)
    /\ \A i \in 1..Len(r.v.books.v) :
          \A j \in 1..Len(r.v.books.v[i].authors.v) :
             "name" \in DOMAIN r.v.books.v[i].authors.v[j]

RECURSIVE SumRecords(_)
SumRecords(answers) ==
    IF Len(answers) = 0 THEN 0
    ELSE Len(RecordsOf(Head(answers))) + SumRecords(Tail(answers))

Terminated == pc \in {"done", "aborted"}

\* the raw records of all the pages fetched, in the order received
RECURSIVE AllRecords(_)
AllRecords(answers) ==
    IF Len(answers) = 0 THEN <<>>
    ELSE RecordsOf(Head(answers)) \o AllRecords(Tail(answers))

\* a run whose search requests were all answered, with an integer total and
\* with pages of sound records
AnsweredSoundly ==
    /\ total_books_available # Unset
    /\ \A i \in 1..Len(PageAnswers) :
          IsEmptyPage(PageAnswers[i]) \/ IsSoundPage(PageAnswers[i])

(***************************************************************************)
(* C1: whatever total_results says (0 and totals below the real count      *)
(* included), a run that the remote answers soundly completes, and its     *)
(* rows are the raw records of the pages fetched before the first empty    *)
(* page: one row for each record, in order, none missing, none twice.      *)
(***************************************************************************)
C1_RowsAreRecordsSeen ==
    (Terminated /\ AnsweredSoundly)
        => /\ pc = "done"
           /\ Len(all_books_details) = SumRecords(PageAnswers)
           /\ \A i \in 1..Len(all_books_details) :
                 all_books_details[i].book_id = AllRecords(PageAnswers)[i].id

\* every page fetched but the last held records, and no more than MaxPages + 1
\* pages were fetched
NoFetchAfterEmptyPage ==
    /\ \A i \in 1..(Len(PageAnswers) - 1) : ~IsEmptyPage(PageAnswers[i])
    /\ Len(PageAnswers) <= MaxPages + 1

(***************************************************************************)
(* C2: the loop ends: a run that is collecting ends, no page is fetched    *)
(* after the first page that is empty or null, and a remote whose pages    *)
(* are empty from page K = MaxPages + 1 on is asked for at most K pages.   *)
(***************************************************************************)
C2_CollectTerminates ==
    /\ []NoFetchAfterEmptyPage
    /\ (pc = "collect") ~> Terminated

C2_Witness ==
    /\ pc = "done"
    /\ Len(PageAnswers) = MaxPages + 1
    /\ IsEmptyPage(PageAnswers[Len(PageAnswers)])

C4_OnlyEmptyPageEndsLoop ==
    [][ pc = "collect" =>
          LET r == responses'[Len(responses')]
          IN /\ IsSoundPage(r) => pc' = "collect"
             /\ IsEmptyPage(r) => pc' = "export" ]_vars

(***************************************************************************)
(* C5: a run whose loop ended without rows shows the "no data" message and *)
(* no download; a download is shown only for a run that collected rows,    *)
(* and it holds one line for each row, in order, after the header.         *)
(***************************************************************************)
C5_ExportIffRows ==
    /\ pc = "done" =>
          IF Len(all_books_details) = 0
          THEN output = [kind |-> "write", body |-> "No books available to collect"]
          ELSE /\ output.kind = "download_button"
               /\ Len(output.data) = Len(all_books_details) + 1
               /\ \A i \in 1..Len(all_books_details) :
                     /\ output.data[i + 1][1] = all_books_details[i].book_id.v
                     /\ Len(output.data[i + 1]) = Len(output.data[1])
    /\ output.kind = "download_button" => pc = "done" /\ Len(all_books_details) > 0
    /\ output.kind = "write" => pc = "done" /\ Len(all_books_details) = 0

C5_Witness ==
    /\ pc = "done"
    /\ Len(all_books_details) = 0
    /\ Len(PageAnswers) = 1
    /\ output.kind = "write"

\* request i failed: no answer, or a total-count answer without total_results
FailedRequest(i) ==
    \/ responses[i] = Unavailable
    \/ /\ SearchIdx # {}
       /\ i = TotalIdx
       /\ "total_results" \notin DOMAIN responses[i].v

(***************************************************************************)
(* C6: a request that fails is the last request of its run, and a run in   *)
(* which a request failed or an exception went uncaught shows no download  *)
(* and no message, whatever it had collected.                              *)
(***************************************************************************)
C6_AbortWithoutExport ==
    /\ \A i \in 1..Len(responses) : FailedRequest(i) => i = Len(responses)
    /\ ((\E i \in 1..Len(responses) : FailedRequest(i)) \/ exc # NoExc)
          => pc = "aborted" /\ output = NoOutput

C6_Witness ==
    /\ pc = "aborted"
    /\ Len(all_books_details) > 0
    /\ responses[Len(responses)] = Unavailable
    /\ output = NoOutput

(***************************************************************************)
(* C7: get_category_subjects issues exactly one request, for the root      *)
(* subject 184, and takes the three mappings from the menus at the indices *)
(* 1, 2 and 3 of that one answer.                                          *)
(***************************************************************************)
C7_OneMenuRequest ==
    pc = "subjects" =>
       /\ requests = <<MenuRequest("184")>>
       /\ \A c \in 1..3 :
             subject_details[c] =
                EntriesDict(responses[1].v.subject_menus.v[c + 1].subject_menu_entries)

\* the last request to the menu endpoint: the one get_topics issued
TopicsIdx == CHOOSE i \in 1..Len(requests) :
                /\ requests[i].url = MenuUrl
                /\ \A j \in 1..Len(requests) : requests[j].url = MenuUrl => j <= i

(***************************************************************************)
(* C8: an empty topic map is no error: the run goes on with the subject id *)
(* as its selection id; with topics, the selection id is the id of the     *)
(* topic chosen.  The total-count query and every page fetch carry it.     *)
(***************************************************************************)
C8_SelectionId ==
    topic_id # Unset =>
       LET entries == responses[TopicsIdx].v.subject_menus.v[1].subject_menu_entries
           selection ==
              IF Len(entries) = 0 THEN requests[TopicsIdx].subjectID
              ELSE LET e == CHOOSE e \in {entries[i] : i \in 1..Len(entries)} :
                               Str(e.subject_name) = topic_select
                   IN ToString(e.id.v)
       IN /\ PyStrOf(topic_id) = selection
          /\ \A i \in SearchIdx : requests[i].subjectID = selection

C8_Witness ==
    /\ pc = "done"
    /\ DOMAIN topics_details = {}
    /\ Len(all_books_details) > 0
    /\ Len(PageAnswers) > 1
    /\ \A i \in SearchIdx : requests[i].subjectID = requests[TopicsIdx].subjectID

(***************************************************************************)
(* The normalizer's input and output, for the claims about it.             *)
(***************************************************************************)
OutputFields ==
    { "book_id", "book_title", "book_subtitle", "book_description", "publisher",
      "edition", "publication_date", "publication_month_year", "publication_year",
      "price", "prime_authors", "num_authors", "book_url", "book_image_url" }

\* the source field of an output field that is copied
SourceOf(k) ==
    CASE k = "book_id" -> "id"
      [] k = "book_title" -> "title"
      [] k = "book_subtitle" -> "subtitle"
      [] k = "book_description" -> "description"
      [] k = "publication_date" -> "on_sale_date"
      [] k = "publication_month_year" -> "short_publication_date"
      [] k = "book_image_url" -> "image_url"
      [] OTHER -> k

\* the raw record has a non-empty authors list
HasAuthors ==
    /\ "authors" \in DOMAIN book
    /\ book.authors.t = "list"
    /\ Len(book.authors.v) > 0

\* s cut at every occurrence of sep
RECURSIVE Split(_, _)
Split(s, sep) ==
    LET at == {k \in 1..(Len(s) - Len(sep) + 1) : SubSeq(s, k, k + Len(sep) - 1) = sep}
    IN IF at = {} THEN <<s>>
       ELSE LET k == CHOOSE k \in at : \A j \in at : k <= j
            IN <<SubSeq(s, 1, k - 1)>> \o Split(SubSeq(s, k + Len(sep), Len(s)), sep)

(***************************************************************************)
(* C9: parse_books_data raises on no raw record, whichever source fields   *)
(* are absent or null, and returns a row that has all 14 output fields,    *)
(* with the default where the source is absent.                            *)
(***************************************************************************)
C9_NeverRaisesAllKeys ==
    pc # "parse" =>
       /\ pc = "parsed"
       /\ DOMAIN details = OutputFields
       /\ \A k \in OutputFields \ {"prime_authors", "book_url"} :
             details[k] = Get(book, SourceOf(k))
       /\ ~Truthy(Get(book, "book_url")) => details.book_url = Str(website_url)

(***************************************************************************)
(* C10, as claimed: prime_authors is "Unknown" when authors is missing,    *)
(* null or an empty list, and for a list of N entries it is the N names    *)
(* joined by ", " in source order.                                         *)
(***************************************************************************)
C10_AuthorsJoinedOrUnknown ==
    pc = "parsed" =>
       IF HasAuthors
       THEN Split(details.prime_authors.v, ", ")
               = [i \in 1..Len(book.authors.v) |-> book.authors.v[i].name.v]
       ELSE details.prime_authors = Str("Unknown")

(***************************************************************************)
(* C10, amended: prime_authors is "Unknown" when authors is missing, null  *)
(* or an empty list, and also when the list is one entry whose name is the *)
(* empty string; for every other list of N named entries it is the N names *)
(* joined by ", " in source order.                                         *)
(***************************************************************************)
C10_AuthorsJoinedUnlessEmpty ==
    pc = "parsed" =>
       IF HasAuthors /\ book.authors.v # <<[name |-> Str("")]>>
       THEN Split(details.prime_authors.v, ", ")
               = [i \in 1..Len(book.authors.v) |-> book.authors.v[i].name.v]
       ELSE details.prime_authors = Str("Unknown")

C10_Witness ==
    /\ pc = "parsed"
    /\ HasAuthors
    /\ book.authors.v = <<[name |-> Str("B")], [name |-> Str("A")]>>
    /\ details.prime_authors = Str("B, A")

(***************************************************************************)
(* The pagination state of a run, from the Get Data handler's first lines  *)
(* on.                                                                     *)
(***************************************************************************)
\* the handler has bound PAGE_NUM and all_books_details
InCollectRun ==
    \/ pc \in {"total", "collect", "export", "done"}
    \/ pc = "aborted" /\ SearchIdx # {}

\* an answer that holds at least one record
IsNonEmptyPage(r) == r.t = "json" /\ ~IsEmptyPage(r)

\* the page numbers asked of the search endpoint by the page fetches, in order
PageNumbersRequested ==
    [i \in 1..Len(PageAnswers) |-> requests[TotalIdx + i].pageNumber]

(***************************************************************************)
(* C11: in a collect run PAGE_NUM >= 1 and the row count is >= 0; PAGE_NUM *)
(* is 1 when the loop starts, a fetch that returns a non-empty page adds 1 *)
(* to it and the size of that page to the row count, every other step      *)
(* leaves both as they are, and the pages fetched are 1, 2, 3, ... in      *)
(* order, none skipped, none twice.                                        *)
(***************************************************************************)
C11_PageAndCountSteps ==
    /\ [](InCollectRun =>
            /\ PAGE_NUM >= 1
            /\ Len(all_books_details) >= 0
            /\ pc = "total" => PAGE_NUM = 1 /\ all_books_details = <<>>
            /\ \A i \in 1..Len(PageAnswers) : PageNumbersRequested[i] = ToString(i))
    /\ [][ InCollectRun =>
             IF pc = "collect" /\ IsNonEmptyPage(responses'[Len(responses')])
             THEN /\ PAGE_NUM' = PAGE_NUM + 1
                  /\ Len(all_books_details')
                        = Len(all_books_details)
                            + Len(responses'[Len(responses')].v.books.v)
                  /\ SubSeq(all_books_details', 1, Len(all_books_details))
                        = all_books_details
             ELSE /\ PAGE_NUM' = PAGE_NUM
                  /\ all_books_details' = all_books_details ]_vars

====
